---------------------------- MODULE Spec2Model ----------------------------
(***************************************************************************)
(* A model of lib/spack/spack/spec.py: the spec parser, the constraint     *)
(* algebra (satisfies / constrain), flatten, normalize, concretize, copy   *)
(* and the canonical printer, over a heap of Spec and Compiler objects.    *)
(*                                                                         *)
(* Python objects are heap cells addressed by identity: a Spec that is     *)
(* stored in two dependency maps, or a Compiler adopted without a copy, is *)
(* one cell seen through two references.  A text is the token sequence     *)
(* SpecLexer yields for it.  A version identifier k stands for the k-th    *)
(* dotted version text in ascending order ("1.0" is 1); 0 stands for None. *)
(***************************************************************************)
EXTENDS Naturals, Integers, Sequences, FiniteSets, TLC

VARIABLES
    specs,      \* heap of Spec objects: Seq of records, identity = index
    comps,      \* heap of Compiler objects
    roots,      \* the Spec references the caller holds
    input,      \* the text handed to the parser (a sequence of symbols)
    last,       \* the last operation: its arguments, outcome and pre-state
    prev,       \* the operation before it (without heaps)
    order,      \* iteration order of a dict of names in this build
    nops        \* operations performed so far

vars == <<specs, comps, roots, input, last, prev, order, nops>>

(***************************************************************************)
(* Bounds of the model.                                                    *)
(***************************************************************************)
MaxItems == 3      \* symbols in a text handed to the parser (SpecSyntax)
MaxOps == 2        \* operations of one session after the parse (Spec)

(***************************************************************************)
(* spack.version (not among the source files): VersionList as a set of     *)
(* pairwise disjoint ranges <<lo, hi>>, inclusive, 0 = open end.  A single *)
(* version v is <<v, v>>.                                                  *)
(***************************************************************************)
\* bind a computed value to a name, evaluating it once
Bind(v, F(_)) == CHOOSE r \in { F(y) : y \in {v} } : TRUE

Max2(a, b) == IF a >= b THEN a ELSE b

HiMin(a, b) == IF a = 0 THEN b ELSE IF b = 0 THEN a ELSE IF a <= b THEN a ELSE b

RangeOk(r) == r[2] = 0 \/ r[1] <= r[2]

RangeMeet(r, s) == <<Max2(r[1], s[1]), HiMin(r[2], s[2])>>

RangeOverlaps(r, s) == RangeOk(RangeMeet(r, s))

RangeJoin(r, s) ==
    << IF r[1] <= s[1] THEN r[1] ELSE s[1],
       IF r[2] = 0 \/ s[2] = 0 THEN 0 ELSE Max2(r[2], s[2]) >>

RECURSIVE JoinAll(_, _)
JoinAll(r, S) ==
    IF S = {} THEN r
    ELSE LET s == CHOOSE x \in S : TRUE
         IN  JoinAll(RangeJoin(r, s), S \ {s})

OpenList == { <<0, 0>> }

\* VersionList.add: insert, merging every range the new one overlaps
VLAdd(vl, r) ==
    LET hit == { s \in vl : RangeOverlaps(r, s) }
    IN  (vl \ hit) \cup { JoinAll(r, hit) }

VLOverlaps(a, b) == \E r \in a : \E s \in b : RangeOverlaps(r, s)

VLIntersect(a, b) ==
    { RangeMeet(r, s) : <<r, s>> \in { p \in a \X b : RangeOverlaps(p[1], p[2]) } }

VLConcrete(vl) == Cardinality(vl) = 1 /\ \A r \in vl : r[1] = r[2] /\ r[1] # 0

\* highest(): the end of the last range, None (0) for an open end or no range
VLHighest(vl) ==
    IF vl = {} THEN 0
    ELSE IF \E r \in vl : r[2] = 0 THEN 0
    ELSE CHOOSE h \in { r[2] : r \in vl } : \A r \in vl : r[2] <= h

\* the ranges in ascending order
RECURSIVE VLSorted(_)
VLSorted(vl) ==
    IF vl = {} THEN <<>>
    ELSE LET lo == CHOOSE r \in vl : \A s \in vl : r[1] <= s[1]
         IN  <<lo>> \o VLSorted(vl \ {lo})

\* VersionList.satisfies, used by Spec.satisfies' sat('versions')
VLSatisfies(a, b) == VLOverlaps(a, b)

(***************************************************************************)
(* External registries.                                                    *)
(***************************************************************************)
SortedNames == <<"callpath", "dyninst", "mpich", "mpileaks", "nosuch">>

Packages == {"callpath", "dyninst", "mpich", "mpileaks"}

SupportedCompilers == {"gcc", "intel"}

SysType == "linux"

RecipeVersion == 1

\* depends_on(...) of each recipe: the names of the prototype specs
RecipeDeps(n) ==
    CASE n = "mpileaks" -> {"mpich", "callpath"}
      [] n = "callpath" -> {"dyninst", "mpich"}
      [] OTHER -> {}

(***************************************************************************)
(* Tokens (SpecLexer).                                                     *)
(***************************************************************************)
Tk(t) == [type |-> t, val |-> "", ver |-> 0]

Id(n) == [type |-> "ID", val |-> n, ver |-> 0]

Vn(k) == [type |-> "ID", val |-> "", ver |-> k]

\* '.' in token.value: version identifiers are the dotted ones
HasDot(tok) == tok.ver # 0

\* a symbol of an input text and the tokens the lexer yields for it
SymToks(s) ==
    CASE s = "mpileaks" -> <<Id("mpileaks")>>
      [] s = "callpath" -> <<Id("callpath")>>
      [] s = "mpich" -> <<Id("mpich")>>
      [] s = "nosuch" -> <<Id("nosuch")>>
      [] s = "^mpileaks" -> <<Tk("DEP"), Id("mpileaks")>>
      [] s = "^callpath" -> <<Tk("DEP"), Id("callpath")>>
      [] s = "^mpich" -> <<Tk("DEP"), Id("mpich")>>
      [] s = "^dyninst" -> <<Tk("DEP"), Id("dyninst")>>
      [] s = "^nosuch" -> <<Tk("DEP"), Id("nosuch")>>
      [] s = "@1" -> <<Tk("AT"), Vn(1)>>
      [] s = "@2" -> <<Tk("AT"), Vn(2)>>
      [] s = "@3" -> <<Tk("AT"), Vn(3)>>
      [] s = "@1:2" -> <<Tk("AT"), Vn(1), Tk("COLON"), Vn(2)>>
      [] s = "@2:3" -> <<Tk("AT"), Vn(2), Tk("COLON"), Vn(3)>>
      [] s = "@2:" -> <<Tk("AT"), Vn(2), Tk("COLON")>>
      [] s = "@:2" -> <<Tk("AT"), Tk("COLON"), Vn(2)>>
      [] s = "@1,3" -> <<Tk("AT"), Vn(1), Tk("COMMA"), Vn(3)>>
      [] s = "+debug" -> <<Tk("ON"), Id("debug")>>
      [] s = "~debug" -> <<Tk("OFF"), Id("debug")>>
      [] s = "+qt" -> <<Tk("ON"), Id("qt")>>
      [] s = "%gcc" -> <<Tk("PCT"), Id("gcc")>>
      [] s = "%intel" -> <<Tk("PCT"), Id("intel")>>
      [] s = "%xlc" -> <<Tk("PCT"), Id("xlc")>>
      [] s = "%gcc@1" -> <<Tk("PCT"), Id("gcc"), Tk("AT"), Vn(1)>>
      [] s = "%gcc@2" -> <<Tk("PCT"), Id("gcc"), Tk("AT"), Vn(2)>>
      [] s = "%gcc@1:2" -> <<Tk("PCT"), Id("gcc"), Tk("AT"), Vn(1), Tk("COLON"), Vn(2)>>
      [] s = "=linux" -> <<Tk("EQ"), Id("linux")>>
      [] s = "=bgq" -> <<Tk("EQ"), Id("bgq")>>
      [] OTHER -> <<>>

RECURSIVE Lex(_)
Lex(text) ==
    IF text = <<>> THEN <<>> ELSE SymToks(Head(text)) \o Lex(Tail(text))

(***************************************************************************)
(* Heap cells.                                                             *)
(***************************************************************************)
NoFn == [x \in {} |-> 0]

\* SpecParser.spec: the fields a Spec starts with
NewSpec(n) ==
    [name |-> n, parent |-> 0, versions |-> {}, variants |-> NoFn,
     architecture |-> "", compiler |-> 0, dependencies |-> NoFn]

Heap(s, c) == [specs |-> s, comps |-> c]

EmptyHeap == Heap(<<>>, <<>>)

SetSpec(H, id, rec) == [H EXCEPT !.specs[id] = rec]


Ret(H, e) == [H |-> H, err |-> e]

(***************************************************************************)
(* Routines the parser calls while it builds a Spec.                       *)
(***************************************************************************)
RECURSIVE AddAll(_, _)
AddAll(vl, vs) ==
    IF vs = <<>> THEN vl ELSE AddAll(VLAdd(vl, Head(vs)), Tail(vs))

\* Spec._add_version, for each version of a parsed list
AddVersions(H, id, vs) ==
    SetSpec(H, id, [H.specs[id] EXCEPT !.versions = AddAll(@, vs)])

\* Spec._add_variant
AddVariant(H, id, n, enabled) ==
    IF n \in DOMAIN H.specs[id].variants
    THEN Ret(H, "DuplicateVariantError")
    ELSE Ret(SetSpec(H, id, [H.specs[id] EXCEPT !.variants = (n :> enabled) @@ @]), "ok")

\* Spec._set_compiler replacing a compiler already set
SetCompilerAgain(H, id, cid) ==
    Ret(SetSpec(H, id, [H.specs[id] EXCEPT !.compiler = cid]), "ok")

\* Spec._set_compiler
SetCompiler(H, id, cid) ==
    IF H.specs[id].compiler # 0
    THEN Ret(H, "DuplicateCompilerError")
    ELSE Ret(SetSpec(H, id, [H.specs[id] EXCEPT !.compiler = cid]), "ok")

\* Spec._set_architecture
SetArchitecture(H, id, a) ==
    IF H.specs[id].architecture # ""
    THEN Ret(H, "DuplicateArchitectureError")
    ELSE Ret(SetSpec(H, id, [H.specs[id] EXCEPT !.architecture = a]), "ok")

\* Spec._add_dependency
AddDependency(H, id, dep) ==
    IF H.specs[dep].name \in DOMAIN H.specs[id].dependencies
    THEN Ret(H, "DuplicateDependencyError")
    ELSE Ret([H EXCEPT !.specs[id].dependencies = (H.specs[dep].name :> dep) @@ @,
                       !.specs[dep].parent = id], "ok")

(***************************************************************************)
(* SpecParser: recursive descent over the token sequence.                  *)
(***************************************************************************)
PeekIs(toks, pos, t) == pos <= Len(toks) /\ toks[pos].type = t

\* the part of SpecParser.version after the optional first identifier
VersionTail(toks, start, p1) ==
    IF PeekIs(toks, p1, "COLON")
    THEN IF PeekIs(toks, p1 + 1, "ID")
         THEN [pos |-> p1 + 2, err |-> "ok", r |-> <<start, toks[p1 + 1].ver>>]
         ELSE [pos |-> p1 + 1, err |-> "ok", r |-> <<start, 0>>]
    ELSE IF start # 0
    THEN [pos |-> p1, err |-> "ok", r |-> <<start, start>>]
    ELSE [pos |-> p1, err |-> "ParseError", r |-> <<0, 0>>]

\* SpecParser.version
ParseVersion(toks, pos) ==
    IF PeekIs(toks, pos, "ID") THEN VersionTail(toks, toks[pos].ver, pos + 1)
    ELSE VersionTail(toks, 0, pos)

\* SpecParser.version_list
RECURSIVE ParseVersionList(_, _, _)
ParseVersionList(toks, pos, acc) ==
    Bind(ParseVersion(toks, pos), LAMBDA v :
        IF v.err # "ok" THEN [pos |-> v.pos, err |-> v.err, vs |-> acc]
        ELSE IF PeekIs(toks, v.pos, "COMMA")
        THEN ParseVersionList(toks, v.pos + 1, Append(acc, v.r))
        ELSE [pos |-> v.pos, err |-> "ok", vs |-> Append(acc, v.r)])

\* SpecParser.variant, SpecParser.architecture: expect(ID), check_identifier
ParseIdent(toks, pos) ==
    IF ~PeekIs(toks, pos, "ID") THEN [pos |-> pos, err |-> "ParseError", val |-> ""]
    ELSE IF HasDot(toks[pos]) THEN [pos |-> pos + 1, err |-> "ParseError", val |-> ""]
    ELSE [pos |-> pos + 1, err |-> "ok", val |-> toks[pos].val]

\* SpecParser.compiler leaving a following '@' to the package
CompilerVersionsLeft(toks, pos) == [pos |-> pos, err |-> "ok", vs |-> <<>>]

\* the optional version list of SpecParser.compiler
CompilerVersions(toks, pos) ==
    IF PeekIs(toks, pos, "AT") THEN ParseVersionList(toks, pos + 1, <<>>)
    ELSE [pos |-> pos, err |-> "ok", vs |-> <<>>]

\* SpecParser.compiler, with Compiler.__init__ and Compiler._add_version
ParseCompiler(toks, pos, H) ==
    Bind(ParseIdent(toks, pos), LAMBDA i :
        IF i.err # "ok" THEN [pos |-> i.pos, err |-> i.err, H |-> H, cid |-> 0]
        ELSE IF i.val \notin SupportedCompilers
        THEN [pos |-> i.pos, err |-> "UnknownCompilerError", H |-> H, cid |-> 0]
        ELSE Bind(CompilerVersions(toks, i.pos), LAMBDA vl :
            IF vl.err # "ok" THEN [pos |-> vl.pos, err |-> vl.err, H |-> H, cid |-> 0]
            ELSE [pos |-> vl.pos, err |-> "ok", cid |-> Len(H.comps) + 1,
                  H |-> [H EXCEPT !.comps =
                            Append(@, [name |-> i.val, versions |-> AddAll({}, vl.vs)])]]))

\* the option loop of SpecParser.spec
RECURSIVE SpecOpts(_, _)
SpecOpts(toks, state) ==
    Bind(state, LAMBDA st :
        IF PeekIs(toks, st.pos, "AT")
        THEN Bind(ParseVersionList(toks, st.pos + 1, <<>>), LAMBDA vl :
                IF vl.err # "ok" THEN [st EXCEPT !.pos = vl.pos, !.err = vl.err]
                ELSE SpecOpts(toks, [st EXCEPT !.pos = vl.pos, !.added = TRUE,
                                               !.H = AddVersions(st.H, st.id, vl.vs)]))
        ELSE IF PeekIs(toks, st.pos, "ON") \/ PeekIs(toks, st.pos, "OFF")
        THEN Bind(ParseIdent(toks, st.pos + 1), LAMBDA i :
                IF i.err # "ok" THEN [st EXCEPT !.pos = i.pos, !.err = i.err]
                ELSE Bind(AddVariant(st.H, st.id, i.val, toks[st.pos].type = "ON"), LAMBDA r :
                    IF r.err # "ok" THEN [st EXCEPT !.pos = i.pos, !.err = r.err]
                    ELSE SpecOpts(toks, [st EXCEPT !.pos = i.pos, !.H = r.H])))
        ELSE IF PeekIs(toks, st.pos, "PCT")
        THEN Bind(ParseCompiler(toks, st.pos + 1, st.H), LAMBDA c :
                IF c.err # "ok" THEN [st EXCEPT !.pos = c.pos, !.err = c.err]
                ELSE Bind(SetCompiler(c.H, st.id, c.cid), LAMBDA r :
                    IF r.err # "ok" THEN [st EXCEPT !.pos = c.pos, !.err = r.err]
                    ELSE SpecOpts(toks, [st EXCEPT !.pos = c.pos, !.H = r.H])))
        ELSE IF PeekIs(toks, st.pos, "EQ")
        THEN Bind(ParseIdent(toks, st.pos + 1), LAMBDA i :
                IF i.err # "ok" THEN [st EXCEPT !.pos = i.pos, !.err = i.err]
                ELSE Bind(SetArchitecture(st.H, st.id, i.val), LAMBDA r :
                    IF r.err # "ok" THEN [st EXCEPT !.pos = i.pos, !.err = r.err]
                    ELSE SpecOpts(toks, [st EXCEPT !.pos = i.pos, !.H = r.H])))
        ELSE \* no option follows: an unspecified version is the open range
             IF st.added THEN st
             ELSE [st EXCEPT !.H.specs[st.id].versions = OpenList])

\* SpecParser.spec: self.token (at pos - 1) is the identifier just accepted
ParseSpec(toks, pos, H) ==
    IF HasDot(toks[pos - 1])
    THEN [pos |-> pos, H |-> H, err |-> "ParseError", id |-> 0, added |-> FALSE]
    ELSE SpecOpts(toks, [pos |-> pos, err |-> "ok", id |-> Len(H.specs) + 1,
                         added |-> FALSE,
                         H |-> [H EXCEPT !.specs = Append(@, NewSpec(toks[pos - 1].val))]])

\* the DEP branch of do_parse attaching to specs[0], not specs[-1]
AttachDepToFirst(toks, st, s) ==
    IF s.err # "ok" THEN [st EXCEPT !.err = s.err]
    ELSE Bind(AddDependency(s.H, st.specs[1], s.id), LAMBDA r :
            IF r.err # "ok" THEN [st EXCEPT !.err = r.err]
            ELSE [st EXCEPT !.pos = s.pos, !.H = r.H])

\* the DEP branch of do_parse, once the dependency s is parsed
AttachDep(toks, st, s) ==
    IF s.err # "ok" THEN [st EXCEPT !.err = s.err]
    ELSE Bind(AddDependency(s.H, st.specs[Len(st.specs)], s.id), LAMBDA r :
            IF r.err # "ok" THEN [st EXCEPT !.err = r.err]
            ELSE [st EXCEPT !.pos = s.pos, !.H = r.H])

\* SpecParser.do_parse
RECURSIVE DoParse(_, _)
DoParse(toks, state) ==
    Bind(state, LAMBDA st :
        IF st.err # "ok" \/ st.pos > Len(toks) THEN st
        ELSE IF PeekIs(toks, st.pos, "ID")
        THEN Bind(ParseSpec(toks, st.pos + 1, st.H), LAMBDA s :
                IF s.err # "ok" THEN [st EXCEPT !.err = s.err]
                ELSE DoParse(toks, [pos |-> s.pos, H |-> s.H, err |-> "ok",
                                    specs |-> Append(st.specs, s.id)]))
        ELSE IF PeekIs(toks, st.pos, "DEP")
        THEN IF st.specs = <<>> THEN [st EXCEPT !.err = "ParseError"]
             ELSE IF ~PeekIs(toks, st.pos + 1, "ID") THEN [st EXCEPT !.err = "ParseError"]
             ELSE DoParse(toks, AttachDep(toks, st, ParseSpec(toks, st.pos + 2, st.H)))
        ELSE [st EXCEPT !.err = "ParseError"])

\* spack.spec.parse(string), on the heap H
Parse(H, toks) == DoParse(toks, [pos |-> 1, H |-> H, err |-> "ok", specs |-> <<>>])

(***************************************************************************)
(* Iteration orders.  sorted(...) is ascending; a plain dict iterates in   *)
(* an order the build fixes (variable order).                              *)
(***************************************************************************)
SortedVariants == <<"debug", "qt">>

Asc(S) == SelectSeq(SortedNames, LAMBDA n : n \in S)

Reverse(q) == [i \in 1..Len(q) |-> q[Len(q) + 1 - i]]

DictOrder(S) == IF order = "asc" THEN Asc(S) ELSE Reverse(Asc(S))

(***************************************************************************)
(* The canonical text: Compiler.__str__, VariantMap.__str__,               *)
(* Spec.str_without_deps, DependencyMap.__str__, Spec.__str__.             *)
(***************************************************************************)
RangeToks(r) ==
    IF r[1] = r[2] /\ r[1] # 0 THEN <<Vn(r[1])>>
    ELSE (IF r[1] # 0 THEN <<Vn(r[1])>> ELSE <<>>) \o <<Tk("COLON")>>
         \o (IF r[2] # 0 THEN <<Vn(r[2])>> ELSE <<>>)

RECURSIVE JoinRanges(_)
JoinRanges(rs) ==
    IF rs = <<>> THEN <<>>
    ELSE IF Len(rs) = 1 THEN RangeToks(rs[1])
    ELSE RangeToks(rs[1]) \o <<Tk("COMMA")>> \o JoinRanges(Tail(rs))

VLStr(vl) == JoinRanges(VLSorted(vl))

CompilerStr(c) ==
    <<Id(c.name)>> \o (IF c.versions # {} THEN <<Tk("AT")>> \o VLStr(c.versions) ELSE <<>>)

RECURSIVE VariantToks(_, _)
VariantToks(vm, ns) ==
    IF ns = <<>> THEN <<>>
    ELSE (IF Head(ns) \in DOMAIN vm
          THEN <<Tk(IF vm[Head(ns)] THEN "ON" ELSE "OFF"), Id(Head(ns))>>
          ELSE <<>>) \o VariantToks(vm, Tail(ns))

VariantMapStr(vm) == VariantToks(vm, SortedVariants)

StrWithoutDeps(H, id) ==
    LET s == H.specs[id]
    IN  <<Id(s.name)>>
        \o (IF s.versions # {} /\ s.versions # OpenList
            THEN <<Tk("AT")>> \o VLStr(s.versions) ELSE <<>>)
        \o (IF s.compiler # 0
            THEN <<Tk("PCT")>> \o CompilerStr(H.comps[s.compiler]) ELSE <<>>)
        \o VariantMapStr(s.variants)
        \o (IF s.architecture # "" THEN <<Tk("EQ"), Id(s.architecture)>> ELSE <<>>)

\* str(spec); RuntimeError when the recursion never ends (a cycle)
RECURSIVE Str(_, _, _)
RECURSIVE StrDeps(_, _, _, _)
Str(H, id, path) ==
    IF id \in path THEN [err |-> "RuntimeError", toks |-> <<>>]
    ELSE Bind(StrDeps(H, H.specs[id].dependencies,
                      Asc(DOMAIN H.specs[id].dependencies), path \cup {id}),
              LAMBDA d : [err |-> d.err, toks |-> StrWithoutDeps(H, id) \o d.toks])

StrDeps(H, deps, ns, path) ==
    IF ns = <<>> THEN [err |-> "ok", toks |-> <<>>]
    ELSE Bind(Str(H, deps[Head(ns)], path), LAMBDA c :
            IF c.err # "ok" THEN c
            ELSE Bind(StrDeps(H, deps, Tail(ns), path), LAMBDA r :
                    [err |-> r.err, toks |-> <<Tk("DEP")>> \o c.toks \o r.toks]))

(***************************************************************************)
(* Spec equality (key_ordering over _cmp_key): the tree a Spec unfolds to. *)
(***************************************************************************)
NoCompiler == [name |-> "", versions |-> {}]

CompilerKey(H, cid) == IF cid = 0 THEN NoCompiler ELSE H.comps[cid]

RECURSIVE CmpKey(_, _, _)
CmpKey(H, id, path) ==
    IF id \in path THEN [cycle |-> id]
    ELSE LET s == H.specs[id]
         IN  [name |-> s.name, versions |-> s.versions, variants |-> s.variants,
              architecture |-> s.architecture,
              compiler |-> CompilerKey(H, s.compiler),
              dependencies |-> [n \in DOMAIN s.dependencies |->
                                   CmpKey(H, s.dependencies[n], path \cup {id})]]

Key(H, id) == CmpKey(H, id, {})

IsCycle(k) == "cycle" \in DOMAIN k

RECURSIVE Cyclic(_)
Cyclic(k) == IsCycle(k) \/ \E n \in DOMAIN k.dependencies : Cyclic(k.dependencies[n])

\* the Spec objects reachable from id through dependency maps
RECURSIVE ReachFrom(_, _, _)
ReachFrom(H, frontier, seen) ==
    IF frontier \subseteq seen THEN seen
    ELSE ReachFrom(H, UNION { { H.specs[i].dependencies[n] :
                                   n \in DOMAIN H.specs[i].dependencies } : i \in frontier },
                   seen \cup frontier)

Reach(H, id) == ReachFrom(H, {id}, {})

(***************************************************************************)
(* satisfies: "True", "False", or "Error" when Python raises inside it.    *)
(***************************************************************************)
And3(x, y) == IF x = "True" THEN y ELSE x

B3(b) == IF b THEN "True" ELSE "False"

\* Compiler.satisfies
CompilerSatisfies(c, o) == c.name = o.name /\ VLOverlaps(c.versions, o.versions)

\* VariantMap.satisfies
VariantMapSatisfies(a, b) ==
    \A k \in DOMAIN b : k \in DOMAIN a => a[k] = b[k]

\* sat(attribute) of Spec.satisfies, for each of the four attributes
SatVersions(a, b) ==
    B3(a.versions = {} \/ b.versions = {} \/ VLSatisfies(a.versions, b.versions))

SatVariants(a, b) ==
    B3(a.variants = NoFn \/ b.variants = NoFn \/ VariantMapSatisfies(a.variants, b.variants))

SatCompiler(a, b) ==
    B3(a.compiler = NoCompiler \/ b.compiler = NoCompiler
       \/ CompilerSatisfies(a.compiler, b.compiler))

\* the architecture is a str, which has no satisfies method
SatArchitecture(a, b) ==
    IF a.architecture = "" \/ b.architecture = "" THEN "True" ELSE "Error"

\* Spec.satisfies and DependencyMap.satisfies, on the trees of two Specs
RECURSIVE Satisfies(_, _)
RECURSIVE DepsSatisfy(_, _, _)
Satisfies(a, b) ==
    IF IsCycle(a) \/ IsCycle(b) THEN "Error"
    ELSE And3(B3(a.name = b.name),
         And3(SatVersions(a, b),
         And3(SatVariants(a, b),
         And3(SatCompiler(a, b),
         And3(SatArchitecture(a, b),
              DepsSatisfy(a.dependencies, b.dependencies,
                          DictOrder(DOMAIN a.dependencies \cap DOMAIN b.dependencies)))))))

DepsSatisfy(da, db, ns) ==
    IF ns = <<>> THEN "True"
    ELSE And3(Satisfies(da[Head(ns)], db[Head(ns)]), DepsSatisfy(da, db, Tail(ns)))

(***************************************************************************)
(* constrain.                                                              *)
(***************************************************************************)
\* Compiler.constrain narrowing the version list before it checks
CompilerConstrainEager(H, cid, ocid) ==
    IF ~CompilerSatisfies(H.comps[cid], H.comps[ocid])
    THEN Ret([H EXCEPT !.comps[cid].versions = VLIntersect(@, H.comps[ocid].versions)],
             "UnsatisfiableCompilerSpecError")
    ELSE Ret([H EXCEPT !.comps[cid].versions = VLIntersect(@, H.comps[ocid].versions)], "ok")

\* Compiler.constrain
CompilerConstrain(H, cid, ocid) ==
    IF ~CompilerSatisfies(H.comps[cid], H.comps[ocid])
    THEN Ret(H, "UnsatisfiableCompilerSpecError")
    ELSE Ret([H EXCEPT !.comps[cid].versions = VLIntersect(@, H.comps[ocid].versions)], "ok")

\* the compiler step of Spec.constrain: narrow the own compiler, or take
\* the other's Compiler object itself
ConstrainCompiler(H, id, o) ==
    IF H.specs[id].compiler # 0 /\ o.compiler # 0
    THEN CompilerConstrain(H, H.specs[id].compiler, o.compiler)
    ELSE IF H.specs[id].compiler = 0
    THEN Ret([H EXCEPT !.specs[id].compiler = o.compiler], "ok")
    ELSE Ret(H, "ok")

\* Spec.constrain(other): other is the record of the other Spec (a heap cell
\* or a recipe's prototype)
SpecConstrain(H, id, o) ==
    LET s == H.specs[id]
    IN  IF ~VLOverlaps(s.versions, o.versions)
        THEN Ret(H, "UnsatisfiableVersionSpecError")
        ELSE IF \E v \in DOMAIN o.variants :
                   v \in DOMAIN s.variants /\ s.variants[v] # o.variants[v]
        THEN Ret(H, "UnsatisfiableVariantSpecError")
        ELSE IF s.architecture # "" /\ o.architecture # ""
                /\ s.architecture # o.architecture
        THEN Ret(H, "UnsatisfiableArchitectureSpecError")
        ELSE Bind(ConstrainCompiler(H, id, o), LAMBDA c :
                IF c.err # "ok" THEN c
                ELSE Ret([c.H EXCEPT
                            !.specs[id].versions = VLIntersect(@, o.versions),
                            !.specs[id].variants = o.variants @@ @,
                            !.specs[id].architecture =
                                IF @ # "" THEN @ ELSE o.architecture], "ok"))

(***************************************************************************)
(* Traversal and flatten.                                                  *)
(***************************************************************************)
\* Spec.preorder_traversal: the nodes in the order they are yielded
RECURSIVE PreVisit(_, _, _)
RECURSIVE PreKids(_, _, _, _)
PreVisit(H, id, st) ==
    IF id \in st.visited THEN st
    ELSE PreKids(H, H.specs[id].dependencies,
                 DictOrder(DOMAIN H.specs[id].dependencies),
                 [list |-> Append(st.list, id), visited |-> st.visited \cup {id}])

PreKids(H, deps, ns, st) ==
    IF ns = <<>> THEN st
    ELSE PreKids(H, deps, Tail(ns), PreVisit(H, deps[Head(ns)], st))

Preorder(H, id) == PreVisit(H, id, [list |-> <<>>, visited |-> {}]).list

\* the loop of Spec.flatten over the traversal; cause is the error constrain raised
\* one step of the loop of Spec.flatten: the first Spec of a name is kept,
\* a later one is merged into it
RECURSIVE FlattenLoop(_, _, _)
FlattenMerge(H, list, flat, c) ==
    IF c.err # "ok"
    THEN [H |-> c.H, err |-> "InconsistentSpecError", flat |-> flat, cause |-> c.err]
    ELSE FlattenLoop(c.H, Tail(list), flat)

\* the loop of Spec.flatten over the traversal; cause is the error constrain raised
FlattenLoop(H, list, flat) ==
    IF list = <<>> THEN [H |-> H, err |-> "ok", flat |-> flat, cause |-> "ok"]
    ELSE IF H.specs[Head(list)].name \notin DOMAIN flat
    THEN FlattenLoop(H, Tail(list), (H.specs[Head(list)].name :> Head(list)) @@ flat)
    ELSE FlattenMerge(H, list, flat,
             SpecConstrain(H, flat[H.specs[Head(list)].name], H.specs[Head(list)]))

\* Spec.flatten
Flatten(H, id) ==
    IF H.specs[id].name \notin Packages
    THEN [H |-> H, err |-> "UnknownPackageError", cause |-> "ok"]
    ELSE Bind(FlattenLoop(H, Preorder(H, id), NoFn), LAMBDA f :
            IF f.err # "ok" THEN [H |-> f.H, err |-> f.err, cause |-> f.cause]
            ELSE [H |-> [f.H EXCEPT !.specs[id].dependencies = f.flat],
                  err |-> "ok", cause |-> "ok"])

(***************************************************************************)
(* normalize.                                                              *)
(***************************************************************************)
\* Spec.validate_package_names: unguarded recursion over the dependencies
RECURSIVE ValidatePackageNames(_, _, _)
RECURSIVE ValidateKids(_, _, _, _)
ValidatePackageNames(H, id, path) ==
    IF id \in path THEN "RuntimeError"
    ELSE IF H.specs[id].name \notin Packages THEN "UnknownPackageError"
    ELSE ValidateKids(H, H.specs[id].dependencies,
                      DictOrder(DOMAIN H.specs[id].dependencies), path \cup {id})

ValidateKids(H, deps, ns, path) ==
    IF ns = <<>> THEN "ok"
    ELSE Bind(ValidatePackageNames(H, deps[Head(ns)], path), LAMBDA e :
            IF e # "ok" THEN e ELSE ValidateKids(H, deps, Tail(ns), path))

\* the prototype Spec a recipe's depends_on(name) holds
Prototype(n) == [NewSpec(n) EXCEPT !.versions = OpenList]

\* Spec._normalize_helper
RECURSIVE NormalizeHelper(_, _)
RECURSIVE NormalizeLoop(_, _, _)
NormalizeHelper(st, id) ==
    IF st.H.specs[id].name \in st.visited THEN st
    ELSE IF st.H.specs[id].name \notin Packages
    THEN [st EXCEPT !.err = "UnknownPackageError"]
    ELSE NormalizeLoop([st EXCEPT !.visited = @ \cup {st.H.specs[id].name}], id,
                       DictOrder(RecipeDeps(st.H.specs[id].name)))

\* spec_deps[name] = pkg_dep.copy(), when the name is not in spec_deps yet
CloneFromPackage(st, n) ==
    IF n \in DOMAIN st.deps THEN st
    ELSE [st EXCEPT !.H.specs = Append(@, Prototype(n)),
                    !.deps = (n :> (Len(st.H.specs) + 1)) @@ @]

\* the rest of one iteration: constrain, _add_dependency, recurse
NormalizeDep(s1, id, ns, d) ==
    Bind(SpecConstrain(s1.H, d, Prototype(Head(ns))), LAMBDA c :
        IF c.err # "ok" THEN [s1 EXCEPT !.H = c.H, !.err = c.err]
        ELSE Bind(AddDependency(c.H, id, d), LAMBDA a :
            IF a.err # "ok" THEN [s1 EXCEPT !.H = a.H, !.err = a.err]
            ELSE NormalizeLoop(NormalizeHelper([s1 EXCEPT !.H = a.H], d), id, Tail(ns))))

\* the loop of _normalize_helper over the recipe's dependencies
NormalizeLoop(st, id, ns) ==
    IF ns = <<>> \/ st.err # "ok" THEN st
    ELSE Bind(CloneFromPackage(st, Head(ns)), LAMBDA s1 :
            NormalizeDep(s1, id, ns, s1.deps[Head(ns)]))

\* the end of Spec.normalize: what was specified but never visited is extraneous
NormalizeCheck(h) ==
    IF h.err # "ok" THEN [H |-> h.H, err |-> h.err, extra |-> {}]
    ELSE IF DOMAIN h.deps \ h.visited # {}
    THEN [H |-> h.H, err |-> "InvalidDependencyException",
          extra |-> DOMAIN h.deps \ h.visited]
    ELSE [H |-> h.H, err |-> "ok", extra |-> {}]

\* Spec.normalize, after validate_package_names
NormalizeFlat(H, id) ==
    Bind(Flatten(H, id), LAMBDA f :
        IF f.err # "ok" THEN [H |-> f.H, err |-> f.err, extra |-> {}]
        ELSE NormalizeCheck(
                 NormalizeHelper([H |-> [f.H EXCEPT !.specs[id].dependencies = NoFn],
                                  visited |-> {}, deps |-> f.H.specs[id].dependencies,
                                  err |-> "ok"], id)))

\* Spec.normalize; extra is what InvalidDependencyException names
Normalize(H, id) ==
    Bind(ValidatePackageNames(H, id, {}), LAMBDA v :
        IF v # "ok" THEN [H |-> H, err |-> v, extra |-> {}]
        ELSE NormalizeFlat(H, id))

(***************************************************************************)
(* copy and concretize.                                                    *)
(***************************************************************************)
\* Compiler.copy handing out the Compiler itself, not a clone
CompilerCopyShared(H, cid) == [H |-> H, cid |-> cid]

\* Compiler.copy
CompilerCopy(H, cid) ==
    [H |-> [H EXCEPT !.comps = Append(@, H.comps[cid])], cid |-> Len(H.comps) + 1]

\* Spec._dup (through Spec.copy, Spec.__init__) and DependencyMap.copy
RECURSIVE Dup(_, _, _)
RECURSIVE DupDeps(_, _, _, _, _)

\* the scalar fields of _dup: a new Spec cell with the other's name,
\* versions, variants and architecture
DupFields(H, o) ==
    [H EXCEPT !.specs = Append(@, [NewSpec(o.name) EXCEPT
                  !.versions = o.versions, !.variants = o.variants,
                  !.architecture = o.architecture])]

\* self.compiler = other.compiler.copy(), when the other has a compiler
DupCompiler(H, id, cid) ==
    IF cid = 0 THEN H
    ELSE Bind(CompilerCopy(H, cid), LAMBDA c : [c.H EXCEPT !.specs[id].compiler = c.cid])

Dup(H, other, path) ==
    IF other \in path THEN [H |-> H, id |-> 0, err |-> "RuntimeError"]
    ELSE Bind(DupDeps(DupCompiler(DupFields(H, H.specs[other]), Len(H.specs) + 1,
                                  H.specs[other].compiler),
                      H.specs[other].dependencies,
                      DictOrder(DOMAIN H.specs[other].dependencies),
                      path \cup {other}, NoFn),
              LAMBDA d :
                  IF d.err # "ok" THEN [H |-> d.H, id |-> 0, err |-> d.err]
                  ELSE [H |-> [d.H EXCEPT !.specs[Len(H.specs) + 1].dependencies = d.map],
                        id |-> Len(H.specs) + 1, err |-> "ok"])

DupDeps(H, deps, ns, path, map) ==
    IF ns = <<>> THEN [H |-> H, map |-> map, err |-> "ok"]
    ELSE Bind(Dup(H, deps[Head(ns)], path), LAMBDA c :
            IF c.err # "ok" THEN [H |-> c.H, map |-> map, err |-> c.err]
            ELSE DupDeps(c.H, deps, Tail(ns), path, (Head(ns) :> c.id) @@ map))

\* Spec.copy
Copy(H, id) == Dup(H, id, {})

\* Spec.validate, called by _concretize
Validate(H, id) == ValidatePackageNames(H, id, {})

\* Compiler._concretize, called by _concretize
CompilerConcretize(H, cid) ==
    IF VLConcrete(H.comps[cid].versions) THEN Ret(H, "ok")
    ELSE IF VLHighest(H.comps[cid].versions) = 0 THEN Ret(H, "NoVersionError")
    ELSE Ret([H EXCEPT !.comps[cid].versions =
                 {<<VLHighest(H.comps[cid].versions), VLHighest(H.comps[cid].versions)>>}],
             "ok")

\* the architecture step of _concretize
ConcretizeArchitecture(H, id) ==
    [H EXCEPT !.specs[id].architecture = IF @ = "" THEN SysType ELSE @]

\* the compiler step of _concretize
ConcretizeCompiler(H, id) ==
    IF H.specs[id].compiler # 0 THEN CompilerConcretize(H, H.specs[id].compiler)
    ELSE Ret(H, "ok")

\* the version step of _concretize: versions.highest() or package.version
ConcretizeVersion(H, id) ==
    IF VLConcrete(H.specs[id].versions) THEN H
    ELSE IF VLHighest(H.specs[id].versions) # 0
    THEN [H EXCEPT !.specs[id].versions = {<<VLHighest(@), VLHighest(@)>>}]
    ELSE [H EXCEPT !.specs[id].versions = {<<RecipeVersion, RecipeVersion>>}]

\* Spec._concretize
Concretize(H, id) ==
    Bind(Validate(H, id), LAMBDA v :
        IF v # "ok" THEN Ret(H, v)
        ELSE Bind(ConcretizeCompiler(ConcretizeArchitecture(H, id), id), LAMBDA c :
            IF c.err # "ok" THEN c
            ELSE Ret(ConcretizeVersion(c.H, id), "ok")))

\* Spec.concretized
Concretized(H, id) ==
    Bind(Copy(H, id), LAMBDA clone :
        IF clone.err # "ok" THEN clone
        ELSE Bind(Concretize(clone.H, clone.id), LAMBDA c :
            [H |-> c.H, id |-> IF c.err = "ok" THEN clone.id ELSE 0, err |-> c.err]))

\* Spec.concrete and DependencyMap.concrete, on the tree of a Spec
RECURSIVE Concrete(_)
Concrete(k) ==
    /\ ~IsCycle(k)
    /\ VLConcrete(k.versions)
    /\ k.architecture # ""
    /\ k.compiler # NoCompiler
    /\ VLConcrete(k.compiler.versions)
    /\ \A n \in DOMAIN k.dependencies : Concrete(k.dependencies[n])

(***************************************************************************)
(* The state machine: a caller that parses texts and calls the operations  *)
(* of Spec on the specs it holds.  last records the latest call (its       *)
(* arguments, its outcome and the heap before it), prev the call before.   *)
(***************************************************************************)
TheHeap == Heap(specs, comps)

Op(op, arg, other, err, res, extra, cause) ==
    [op |-> op, arg |-> arg, other |-> other, err |-> err, res |-> res,
     extra |-> extra, cause |-> cause, pre |-> TheHeap]

NoOp == [op |-> "none", arg |-> 0, other |-> 0, err |-> "ok", res |-> 0,
         extra |-> {}, cause |-> "ok", pre |-> EmptyHeap]

Brief(l) == [op |-> l.op, arg |-> l.arg, err |-> l.err, res |-> l.res]

RootSet == { roots[i] : i \in 1..Len(roots) }

Step(H, l) ==
    /\ specs' = H.specs
    /\ comps' = H.comps
    /\ last' = l
    /\ prev' = Brief(last)
    /\ UNCHANGED order

\* parse(text): the caller keeps the specs returned; a failed parse leaves
\* nothing behind
ParseOp(text) ==
    \E p \in { Parse(TheHeap, Lex(text)) } :
        /\ input' = text
        /\ roots' = IF p.err = "ok" THEN roots \o p.specs ELSE roots
        /\ Step(IF p.err = "ok" THEN p.H ELSE TheHeap,
                Op("parse", 0, 0, p.err, IF p.err = "ok" THEN Len(p.specs) ELSE 0,
                   {}, "ok"))
        /\ UNCHANGED nops

\* a.constrain(b)
ConstrainOp(a, b) ==
    \E c \in { SpecConstrain(TheHeap, a, specs[b]) } :
        /\ Step(c.H, Op("constrain", a, b, c.err, 0, {}, "ok"))
        /\ nops' = nops + 1
        /\ UNCHANGED <<roots, input>>

\* s.flatten()
FlattenOp(s) ==
    \E f \in { Flatten(TheHeap, s) } :
        /\ Step(f.H, Op("flatten", s, 0, f.err, 0, {}, f.cause))
        /\ nops' = nops + 1
        /\ UNCHANGED <<roots, input>>

\* s.normalize()
NormalizeOp(s) ==
    \E n \in { Normalize(TheHeap, s) } :
        /\ Step(n.H, Op("normalize", s, 0, n.err, 0, n.extra, "ok"))
        /\ nops' = nops + 1
        /\ UNCHANGED <<roots, input>>

\* c = s.copy()
CopyOp(s) ==
    \E c \in { Copy(TheHeap, s) } :
        /\ Step(c.H, Op("copy", s, 0, c.err, c.id, {}, "ok"))
        /\ roots' = IF c.err = "ok" THEN Append(roots, c.id) ELSE roots
        /\ nops' = nops + 1
        /\ UNCHANGED input

\* c = s.concretized(); the caller keeps the clone only when the call returns
ConcretizedOp(s) ==
    \E c \in { Concretized(TheHeap, s) } :
        /\ Step(c.H, Op("concretized", s, 0, c.err, c.id, {}, "ok"))
        /\ roots' = IF c.err = "ok" THEN Append(roots, c.id) ELSE roots
        /\ nops' = nops + 1
        /\ UNCHANGED input

\* parse(str(s)) once str(s) is t: res is the spec parsed back when there
\* is exactly one
ParseBack(s, t) ==
    \E p \in { Parse(TheHeap, t.toks) } :
        Step(IF t.err = "ok" /\ p.err = "ok" THEN p.H ELSE TheHeap,
             Op("printparse", s, 0, IF t.err # "ok" THEN t.err ELSE p.err,
                IF t.err = "ok" /\ p.err = "ok" /\ Len(p.specs) = 1
                THEN p.specs[1] ELSE 0,
                {}, "ok"))

\* parse(str(s))
PrintParseOp(s) ==
    /\ \E t \in { Str(TheHeap, s, {}) } : ParseBack(s, t)
    /\ nops' = nops + 1
    /\ UNCHANGED <<roots, input>>

Init ==
    /\ specs = <<>>
    /\ comps = <<>>
    /\ roots = <<>>
    /\ input = <<>>
    /\ last = NoOp
    /\ prev = Brief(NoOp)
    /\ order \in {"asc", "desc"}
    /\ nops = 0

(***************************************************************************)
(* Spec: one session.  A text is parsed, then up to MaxOps operations are  *)
(* called on the specs the caller holds.                                   *)
(***************************************************************************)
SessionTexts ==
    { <<"mpileaks">>, <<"callpath">>, <<"mpich">>, <<"nosuch">>,
      <<"mpileaks", "^mpich", "@1">>,
      <<"mpileaks", "^dyninst">>,
      <<"mpileaks", "^nosuch">>,
      <<"mpileaks", "^mpileaks">>,
      <<"mpileaks", "@1", "^mpileaks", "@2">>,
      <<"mpileaks", "%gcc@1:2", "^mpich", "%gcc@1">>,
      <<"mpileaks", "%gcc@1", "=linux">>,
      <<"callpath", "^mpileaks">>,
      <<"callpath", "^mpich", "@1:2">>,
      <<"mpich", "^callpath", "^dyninst">>,
      <<"mpich", "%gcc@1">>,
      <<"mpich", "%gcc">>,
      <<"mpich", "%gcc@1:2", "=linux">>,
      <<"mpich", "@2:", "%gcc@1">>,
      <<"mpich", "@1:2", "+debug", "%gcc@2">> }

Started == roots # <<>> \/ last.op # "none"

Next ==
    \/ ~Started /\ \E t \in SessionTexts : ParseOp(t)
    \/ \E s \in RootSet : nops < MaxOps /\ FlattenOp(s)
    \/ \E s \in RootSet : nops < MaxOps /\ NormalizeOp(s)
    \/ \E s \in RootSet : nops < MaxOps /\ CopyOp(s)
    \/ \E s \in RootSet : nops < MaxOps /\ ConcretizedOp(s)
    \/ \E s \in RootSet : nops < MaxOps /\ PrintParseOp(s)

Spec == Init /\ [][Next]_vars

(***************************************************************************)
(* SpecAlgebra: two specs of one package are parsed, then constrained      *)
(* against each other.                                                     *)
(***************************************************************************)
VersionOrVariant == { <<>>, <<"@1">>, <<"@1:2">>, <<"@2:3">>, <<"+debug">>, <<"~debug">> }

CompilerOrArch ==
    { <<>>, <<"%gcc@1">>, <<"%gcc@1:2">>, <<"%gcc@2">>, <<"%intel", "@1">>,
      <<"=linux">>, <<"=bgq">> }

AlgebraTexts ==
    { <<"mpileaks">> \o x \o y : x \in VersionOrVariant, y \in CompilerOrArch }
    \cup { <<"mpileaks", "^mpich", "@1">>, <<"mpileaks", "^mpich", "@1:2">>,
           <<"mpileaks", "^mpich", "@2:3">> }

NextAlgebra ==
    \/ Len(roots) < 2 /\ nops = 0 /\ \E t \in AlgebraTexts : ParseOp(t)
    \/ \E a \in RootSet, b \in RootSet :
           Len(roots) = 2 /\ a # b /\ nops < MaxOps /\ ConstrainOp(a, b)

SpecAlgebra == Init /\ [][NextAlgebra]_vars

(***************************************************************************)
(* SpecSyntax: one text of up to MaxItems symbols is parsed, and what was  *)
(* parsed is printed and parsed back.                                      *)
(***************************************************************************)
Alphabet ==
    { "mpileaks", "^mpich", "^callpath", "@1", "@2", "+debug", "~debug", "+qt",
      "%gcc", "%intel", "%gcc@1", "=linux", "=bgq" }

SyntaxTexts == UNION { [1..n -> Alphabet] : n \in 1..MaxItems }

NextSyntax ==
    \/ ~Started /\ \E t \in SyntaxTexts : ParseOp(t)
    \/ \E s \in RootSet : nops < MaxOps /\ PrintParseOp(s)

SpecSyntax == Init /\ [][NextSyntax]_vars

(***************************************************************************)
(* Properties of constrain (SpecAlgebra).                                  *)
(***************************************************************************)
Unsatisfiable ==
    { "UnsatisfiableVersionSpecError", "UnsatisfiableVariantSpecError",
      "UnsatisfiableArchitectureSpecError", "UnsatisfiableCompilerSpecError" }

\* C1: whenever a.constrain(b) returns without error, the resulting a
\* satisfies the b and the a of before the call, under Spec.satisfies
\* (name, versions, variants, compiler, architecture, dependency maps).
C1_MonotoneConstrain ==
    (last.op = "constrain" /\ last.err = "ok") =>
        /\ Satisfies(Key(TheHeap, last.arg), Key(last.pre, last.other)) = "True"
        /\ Satisfies(Key(TheHeap, last.arg), Key(last.pre, last.arg)) = "True"

\* the versions, variants, architecture and compiler of Spec id, the
\* compiler with its version list
Fields(H, id) ==
    [versions |-> H.specs[id].versions, variants |-> H.specs[id].variants,
     architecture |-> H.specs[id].architecture,
     compiler |-> H.specs[id].compiler,
     compilerKey |-> CompilerKey(H, H.specs[id].compiler)]

\* C2: whenever constrain fails with an Unsatisfiable* error, the
\* receiver's versions, variants, architecture and compiler (with the
\* compiler's version list) are exactly what they were before the call.
C2_ConstrainFailureAtomic ==
    (last.op = "constrain" /\ last.err \in Unsatisfiable) =>
        Fields(TheHeap, last.arg) = Fields(last.pre, last.arg)

\* a constrain that failed on the compilers although the versions of the
\* two specs overlap and a successful call would have narrowed them
C2_Witness ==
    /\ last.op = "constrain"
    /\ last.err = "UnsatisfiableCompilerSpecError"
    /\ VLIntersect(specs[last.arg].versions, specs[last.other].versions)
           # specs[last.arg].versions
    /\ comps[specs[last.arg].compiler].name = comps[specs[last.other].compiler].name

(***************************************************************************)
(* Properties of normalize, flatten, concretized and the printer (Spec).   *)
(***************************************************************************)
\* the packages the recipes of the names in S declare, transitively
RECURSIVE RecipeClosure(_, _)
RecipeClosure(S, seen) ==
    IF S \subseteq seen THEN seen
    ELSE RecipeClosure(UNION { RecipeDeps(n) : n \in S }, seen \cup S)

\* what the recipe of n requires, directly or through other recipes
Required(n) == RecipeClosure(RecipeDeps(n), {})

\* C3: when normalize() succeeded on a parsed spec, a second normalize()
\* on the result succeeds too and leaves a DAG equal to the first result,
\* also when a dependency's recipe declares dependencies of its own.
C3_NormalizeIdempotent ==
    (last.op = "normalize" /\ prev.op = "normalize" /\ prev.arg = last.arg
     /\ prev.err = "ok") =>
        (last.err = "ok" /\ Key(TheHeap, last.arg) = Key(last.pre, last.arg))

\* the dependencies the user wrote on the parsed spec id that its recipes
\* do not require
Extraneous(H, id) == DOMAIN H.specs[id].dependencies \ Required(H.specs[id].name)

\* C4: when a parsed spec of known packages names a dependency that the
\* transitive closure of the root's recipe does not declare (the root's
\* own name included), normalize() fails with InvalidDependencyException
\* naming every such dependency.
C4_ExtraneousRejected ==
    (last.op = "normalize" /\ prev.op = "parse"
     /\ last.pre.specs[last.arg].name \in Packages
     /\ DOMAIN last.pre.specs[last.arg].dependencies \subseteq Packages
     /\ Extraneous(last.pre, last.arg) # {}) =>
        (last.err = "InvalidDependencyException"
         /\ last.extra = Extraneous(last.pre, last.arg))

\* C5: when concretizing a normalized spec succeeds, the result is
\* concrete (versions concrete, architecture set, compiler set and
\* concrete, every dependency concrete) and satisfies the original spec.
C5_ConcretizedIsConcrete ==
    (last.op = "concretized" /\ last.err = "ok"
     /\ prev.op = "normalize" /\ prev.err = "ok" /\ prev.arg = last.arg) =>
        /\ Concrete(Key(TheHeap, last.res))
        /\ Satisfies(Key(TheHeap, last.res), Key(last.pre, last.arg)) = "True"

\* C6: after s.concretized() returns or fails, s and every spec reachable
\* from s have the name, versions, variants, architecture, compiler and
\* dependencies they had before the call.
C6_ConcretizedKeepsReceiver ==
    last.op = "concretized" =>
        \A id \in Reach(last.pre, last.arg) :
            /\ specs[id] = last.pre.specs[id]
            /\ CompilerKey(TheHeap, specs[id].compiler)
                   = CompilerKey(last.pre, specs[id].compiler)

\* a concretized() that returned a clone whose compiler it narrowed to one
\* version, the receiver's compiler being a range
C6_Witness ==
    /\ last.op = "concretized"
    /\ last.err = "ok"
    /\ specs[last.arg].compiler # 0
    /\ ~VLConcrete(comps[specs[last.arg].compiler].versions)
    /\ VLConcrete(comps[specs[last.res].compiler].versions)
    /\ specs[last.res].architecture # specs[last.arg].architecture

\* C7: parsing the canonical text str(s) of a spec s (a finite DAG) yields
\* a single spec equal to s (name, versions, variants, compiler,
\* architecture and dependencies recursively), also for a normalized spec
\* whose dependencies have dependencies.
C7_PrintParseRoundTrip ==
    (last.op = "printparse" /\ ~Cyclic(Key(last.pre, last.arg))) =>
        /\ last.err = "ok"
        /\ last.res # 0
        /\ Key(TheHeap, last.res) = Key(TheHeap, last.arg)

\* C8: after normalize() succeeds, every name in the root's dependency map
\* is required by the root's recipe, directly or transitively, and every
\* dependency a recipe of a reachable package declares is in the root's map.
C8_NormalizedMapIsClosure ==
    (last.op = "normalize" /\ last.err = "ok") =>
        /\ DOMAIN specs[last.arg].dependencies \subseteq Required(specs[last.arg].name)
        /\ \A id \in Reach(TheHeap, last.arg) :
               RecipeDeps(specs[id].name) \subseteq DOMAIN specs[last.arg].dependencies

\* C9: after flatten() succeeds, the root's dependency map is the
\* transitive closure of its dependencies: one entry for each name among
\* the nodes that were reachable below the root, holding such a node, and
\* no other node maps a name of the root's map to a different Spec.
C9_FlattenedMapIsClosure ==
    (last.op = "flatten" /\ last.err = "ok") =>
        /\ DOMAIN specs[last.arg].dependencies
               = { last.pre.specs[id].name : id \in Reach(last.pre, last.arg) \ {last.arg} }
        /\ \A n \in DOMAIN specs[last.arg].dependencies :
               /\ specs[last.arg].dependencies[n] \in Reach(last.pre, last.arg) \ {last.arg}
               /\ specs[specs[last.arg].dependencies[n]].name = n
        /\ \A id \in Reach(TheHeap, last.arg) \ {last.arg} :
               \A n \in DOMAIN specs[id].dependencies \cap DOMAIN specs[last.arg].dependencies :
                   specs[id].dependencies[n] = specs[last.arg].dependencies[n]

(***************************************************************************)
(* Properties of the parser (SpecSyntax), stated on the symbols of the     *)
(* text.  A head or a '^' symbol opens a spec; the options up to the next  *)
(* such symbol belong to it.                                               *)
(***************************************************************************)
IsDependency(sym) == sym \in {"^mpich", "^callpath"}

Opens(sym) == sym = "mpileaks" \/ IsDependency(sym)

IsCompiler(sym) == sym \in {"%gcc", "%intel", "%gcc@1"}

IsArchitecture(sym) == sym \in {"=linux", "=bgq"}

IsVariant(sym) == sym \in {"+debug", "~debug", "+qt"}

VariantName(sym) == IF sym = "+qt" THEN "qt" ELSE "debug"

\* the symbols at j < i are options of one spec of the text
SameSpec(text, j, i) == \A k \in j..i : ~Opens(text[k])

\* the symbol at i repeats the compiler, the architecture or a variant
\* name that an earlier option of the same spec gave
Duplicate(text, i) ==
    \E j \in 1..(i - 1) :
        /\ SameSpec(text, j, i)
        /\ \/ IsCompiler(text[j]) /\ IsCompiler(text[i])
           \/ IsArchitecture(text[j]) /\ IsArchitecture(text[i])
           \/ IsVariant(text[j]) /\ IsVariant(text[i])
              /\ VariantName(text[j]) = VariantName(text[i])

DuplicateError(sym) ==
    IF IsCompiler(sym) THEN "DuplicateCompilerError"
    ELSE IF IsArchitecture(sym) THEN "DuplicateArchitectureError"
    ELSE "DuplicateVariantError"

\* a dependency named twice under one root, the second one complete
\* before the symbol at i
RepeatedDependency(text, i) ==
    \E j \in 1..i, k \in 1..i, m \in 1..i :
        /\ j < k /\ k < m /\ m < i
        /\ IsDependency(text[j]) /\ text[k] = text[j]
        /\ \A x \in j..k : text[x] # "mpileaks"
        /\ Opens(text[m])

\* the k-th spec the text opens: the position of its opening symbol
OpenerOf(text, k) ==
    CHOOSE i \in 1..Len(text) :
        Opens(text[i]) /\ Cardinality({ j \in 1..i : Opens(text[j]) }) = k

\* the options of the spec opened at position i
OptionsOf(text, i) == { j \in (i + 1)..Len(text) : SameSpec(text, i + 1, j) }

\* C10: in a text that begins with a package name, a second compiler, a
\* second architecture or a repeated variant name within one spec makes
\* the parse fail, with DuplicateCompilerError, DuplicateArchitectureError
\* or DuplicateVariantError for the first such symbol; in whatever order
\* the options stand, every spec the parser returns has the one compiler
\* and the one architecture its text names, or none, and one entry for
\* each variant name.
C10_DuplicateOptionsRejected ==
    (last.op = "parse" /\ input[1] = "mpileaks") =>
        /\ last.err = "ok" => \A i \in 1..Len(input) : ~Duplicate(input, i)
        /\ \A i \in 1..Len(input) :
               (/\ Duplicate(input, i)
                /\ \A j \in 1..(i - 1) : ~Duplicate(input, j)
                /\ ~RepeatedDependency(input, i))
               => last.err = DuplicateError(input[i])
        /\ last.err = "ok" =>
               \A k \in 1..Len(specs) :
                   /\ (specs[k].compiler # 0) =
                          (\E j \in OptionsOf(input, OpenerOf(input, k)) : IsCompiler(input[j]))
                   /\ \A j \in OptionsOf(input, OpenerOf(input, k)) :
                          /\ IsCompiler(input[j]) =>
                                 <<Tk("PCT"), Id(comps[specs[k].compiler].name)>>
                                     = SubSeq(SymToks(input[j]), 1, 2)
                          /\ IsArchitecture(input[j]) =>
                                 <<Tk("EQ"), Id(specs[k].architecture)>> = SymToks(input[j])
                          /\ IsVariant(input[j]) =>
                                 /\ VariantName(input[j]) \in DOMAIN specs[k].variants
                                 /\ specs[k].variants[VariantName(input[j])]
                                        = (input[j] # "~debug")
                   /\ (specs[k].architecture # "") =
                          (\E j \in OptionsOf(input, OpenerOf(input, k)) :
                               IsArchitecture(input[j]))
                   /\ DOMAIN specs[k].variants =
                          { VariantName(input[j]) :
                              j \in { x \in OptionsOf(input, OpenerOf(input, k)) :
                                        IsVariant(input[x]) } }

\* a parse that stopped at the second architecture of a spec
C10_Witness ==
    /\ last.op = "parse"
    /\ last.err = "DuplicateArchitectureError"
    /\ \E i \in 1..Len(input) : Duplicate(input, i) /\ IsArchitecture(input[i])

\* the position of the root the symbol at i belongs to: the last package
\* name at or before i
RootOf(text, i) ==
    CHOOSE r \in 1..i : text[r] = "mpileaks" /\ \A x \in (r + 1)..i : text[x] # "mpileaks"

\* the number of the spec the symbol at position i opens
SpecAt(text, i) == Cardinality({ j \in 1..i : Opens(text[j]) })

\* the name of the package a head or a '^' symbol names
OpenedName(sym) == SymToks(sym)[Len(SymToks(sym))].val

\* C11: every '^' dependency of a text is attached to the most recently
\* parsed root, never to a dependency or to an earlier root: a parsed
\* dependency has an empty dependency map and that root as parent, a root
\* holds exactly the dependencies written after it, and the parser returns
\* the roots in order; a text that begins with '^' is a ParseError.
C11_DependenciesAttachToLastRoot ==
    last.op = "parse" =>
        /\ IsDependency(input[1]) => last.err = "ParseError"
        /\ (last.err = "ok" /\ input[1] = "mpileaks") =>
               /\ roots = [ k \in 1..Cardinality({ i \in 1..Len(input) : input[i] = "mpileaks" }) |->
                              SpecAt(input, CHOOSE i \in 1..Len(input) :
                                  /\ input[i] = "mpileaks"
                                  /\ Cardinality({ j \in 1..i : input[j] = "mpileaks" }) = k) ]
               /\ \A i \in 1..Len(input) :
                      /\ IsDependency(input[i]) =>
                             /\ specs[SpecAt(input, i)].dependencies = NoFn
                             /\ specs[SpecAt(input, i)].parent = SpecAt(input, RootOf(input, i))
                             /\ specs[SpecAt(input, i)].name = OpenedName(input[i])
                      /\ input[i] = "mpileaks" =>
                             /\ specs[SpecAt(input, i)].parent = 0
                             /\ specs[SpecAt(input, i)].dependencies =
                                    [ n \in { OpenedName(input[j]) :
                                                j \in { x \in i..Len(input) :
                                                          IsDependency(input[x])
                                                          /\ RootOf(input, x) = i } } |->
                                        SpecAt(input, CHOOSE j \in i..Len(input) :
                                            /\ IsDependency(input[j])
                                            /\ RootOf(input, j) = i
                                            /\ OpenedName(input[j]) = n) ]

\* a parse of two roots that attached a dependency to the second one
C11_Witness ==
    /\ last.op = "parse"
    /\ last.err = "ok"
    /\ Len(roots) = 2
    /\ specs[roots[1]].dependencies = NoFn
    /\ specs[roots[2]].dependencies # NoFn

IsVersion(sym) == sym \in {"@1", "@2"}

\* the version list an '@' symbol, or the '@' part of a compiler symbol, denotes
VersionsOf(sym) ==
    IF sym \in {"@1", "%gcc@1"} THEN {<<1, 1>>}
    ELSE IF sym = "@2" THEN {<<2, 2>>}
    ELSE {}

\* the '@' at j comes right after a '%compiler' identifier
FollowsCompiler(text, j) == j > 1 /\ text[j - 1] \in {"%gcc", "%intel"}

\* C12: an '@' version list is bound to the compiler only when it comes
\* immediately after the '%compiler' identifier; every other '@' of the
\* spec (before the compiler, after the compiler's own version list, after
\* any other option) is bound to the package's versions, and a spec with
\* no package-bound '@' has the open version list ':'.
C12_VersionBinding ==
    (last.op = "parse" /\ last.err = "ok" /\ input[1] = "mpileaks") =>
        \A k \in 1..Len(specs) :
            /\ specs[k].versions =
                   IF \E j \in OptionsOf(input, OpenerOf(input, k)) :
                          IsVersion(input[j]) /\ ~FollowsCompiler(input, j)
                   THEN UNION { VersionsOf(input[j]) :
                                  j \in { x \in OptionsOf(input, OpenerOf(input, k)) :
                                            IsVersion(input[x]) /\ ~FollowsCompiler(input, x) } }
                   ELSE OpenList
            /\ \A c \in OptionsOf(input, OpenerOf(input, k)) :
                   IsCompiler(input[c]) =>
                       comps[specs[k].compiler].versions =
                           VersionsOf(input[c])
                           \cup (IF c < Len(input) /\ IsVersion(input[c + 1])
                                    /\ FollowsCompiler(input, c + 1)
                                 THEN VersionsOf(input[c + 1]) ELSE {})

\* a parse where one '@' went to the compiler and a later one to the package
C12_Witness ==
    /\ last.op = "parse"
    /\ last.err = "ok"
    /\ Len(specs) = 1
    /\ specs[1].compiler # 0
    /\ comps[specs[1].compiler].versions = {<<1, 1>>}
    /\ specs[1].versions = {<<2, 2>>}

(***************************************************************************)
(* SpecAdopt: three specs of one package, with and without a compiler, are *)
(* parsed and constrained against each other.                              *)
(***************************************************************************)
AdoptTexts ==
    { <<"mpileaks">>, <<"mpileaks", "@1">>, <<"mpileaks", "%gcc@1:2">>,
      <<"mpileaks", "%gcc@1">>, <<"mpileaks", "%gcc@2">>, <<"mpileaks", "%intel", "@1">> }

NextAdopt ==
    \/ Len(roots) < 3 /\ nops = 0 /\ \E t \in AdoptTexts : ParseOp(t)
    \/ \E a \in RootSet, b \in RootSet :
           Len(roots) = 3 /\ a # b /\ nops < MaxOps /\ ConstrainOp(a, b)

SpecAdopt == Init /\ [][NextAdopt]_vars

\* C13: when a.constrain(b) succeeded, a having had no compiler and b one,
\* a holds a copy: a later constrain on a, which may narrow a's compiler,
\* leaves b's compiler unchanged.
C13_AdoptedCompilerIsCopy ==
    [][(/\ last.op = "constrain"
        /\ last.err = "ok"
        /\ last.pre.specs[last.arg].compiler = 0
        /\ last.pre.specs[last.other].compiler # 0
        /\ last'.op = "constrain"
        /\ last'.arg = last.arg
        /\ nops' = nops + 1)
       => CompilerKey(Heap(specs', comps'), specs'[last.other].compiler)
              = CompilerKey(TheHeap, specs[last.other].compiler)]_vars

(***************************************************************************)
(* Error kinds of flatten and termination (Spec).                          *)
(***************************************************************************)
\* C14: when flatten() fails to merge two nodes of one name in a spec that
\* is as the parser built it from the user's text, the conflict is the
\* user's and the underlying Unsatisfiable* error surfaces; it is not
\* wrapped as InconsistentSpecError.
C14_UserConflictSurfaces ==
    (last.op = "flatten" /\ prev.op = "parse" /\ last.cause \in Unsatisfiable) =>
        last.err = last.cause

\* C15: every operation terminates on every spec that parse, flatten() and
\* normalize() calls can produce: none recurses without end (which Python
\* ends with RuntimeError, maximum recursion depth exceeded).
C15_OperationsTerminate ==
    (last.op \in {"flatten", "normalize", "copy", "concretized", "printparse"}
     /\ prev.op \in {"parse", "flatten", "normalize"}) =>
        last.err # "RuntimeError"

=============================================================================
